---- MODULE Spec2Model ----
(***************************************************************************)
(* Model of tools/deploy.py: the one-shot script that patches the RPC      *)
(* client's deploy method, compiles the Raiden contracts, deploys the      *)
(* top-level contracts in order and prints their addresses as JSON.        *)
(*                                                                         *)
(* Strings that the script takes apart (file names, contract references)   *)
(* are sequences of tokens in which every separator character the script   *)
(* looks for ("/", ".", ":") is a token of its own, so that                *)
(*   'Registry.sol:Registry'  is  <<"Registry", ".", "sol", ":", "Registry">>. *)
(* A dict is a TLA+ function; an address is a record of the 20 bytes it    *)
(* denotes (id) and of the text format it is written in (fmt).             *)
(***************************************************************************)
EXTENDS Integers, Sequences, FiniteSets, TLC

VARIABLES
    pc,                 \* the step main is about to take, "done" or "aborted"
    error,              \* the call whose error ended the run, or None
    pretty,             \* --pretty
    gas_price_opt,      \* --gas-price as given on the command line, or NotGiven
    port_opt,           \* --port as given on the command line, or NotGiven
    source,             \* source text of JSONRPCClient.deploy_solidity_contract
    method,             \* the body JSONRPCClient.deploy_solidity_contract is bound to
    privatekey,         \* main's privatekey
    gas_price_in_wei,   \* main's gas_price_in_wei
    client,             \* the arguments the JSONRPCClient was constructed with
    compile_calls,      \* the file lists handed to compile_files_cwd, in order
    compiled_contracts, \* deploy_all's compiled_contracts
    idx,                \* position of deploy_all's loop in CONTRACTS_TO_DEPLOY
    deployed,           \* deploy_all's accumulator, then main's deployed
    calls,              \* the calls of client.deploy_solidity_contract, in order
    chain,              \* the contracts that exist on the chain
    stdout,             \* what was printed, or None
    trace               \* the steps taken, in order

vars ==
    << pc, error, pretty, gas_price_opt, port_opt, source, method, privatekey, gas_price_in_wei,
       client, compile_calls, compiled_contracts, idx, deployed, calls, chain, stdout,
       trace >>

(* ------------------------------ bounds -------------------------------- *)

\* Explicit --gas-price values tried: 0..MaxGasPrice, and the documented 4.
MaxGasPrice == 1

\* Distinct 20-byte addresses the node may hand out: 1..MaxAddr.
MaxAddr == 2

(* ------------------------- program constants -------------------------- *)

DefaultGasPrice == 4

DefaultPort == 8545

GWei == 1000000000

Host == "127.0.0.1"

RAIDEN_CONTRACT_FILES ==
    << <<"NettingChannelLibrary", ".", "sol">>,
       <<"ChannelManagerLibrary", ".", "sol">>,
       <<"Registry", ".", "sol">>,
       <<"EndpointRegistry", ".", "sol">> >>

\* A slip in the list: the second entry names another contract than the one
\* main looks up.
CONTRACTS_TO_DEPLOY_renamed ==
    << <<"Registry", ".", "sol", ":", "Registry">>,
       <<"EndpointRegistry", ".", "sol", ":", "Endpoint">> >>

CONTRACTS_TO_DEPLOY ==
    << <<"Registry", ".", "sol", ":", "Registry">>,
       <<"EndpointRegistry", ".", "sol", ":", "EndpointRegistry">> >>

\* The two keys main's formatting step spells out.
KeyEndpointRegistry == <<"EndpointRegistry", ".", "sol", ":", "EndpointRegistry">>

KeyRegistry == <<"Registry", ".", "sol", ":", "Registry">>

(* ------------------------------ helpers ------------------------------- *)

EmptyDict == << >>

None == "None"

Range(s) == {s[i] : i \in 1..Len(s)}

\* dict.update(other): other's entries win.
Update(d, other) == other @@ d

\* Index of the first / last occurrence of token sep in s, 0 when absent.
FirstIndex(s, sep) ==
    IF \E i \in 1..Len(s) : s[i] = sep
    THEN CHOOSE i \in 1..Len(s) : s[i] = sep /\ \A j \in 1..(i - 1) : s[j] # sep
    ELSE 0

LastIndex(s, sep) ==
    IF \E i \in 1..Len(s) : s[i] = sep
    THEN CHOOSE i \in 1..Len(s) : s[i] = sep /\ \A j \in (i + 1)..Len(s) : s[j] # sep
    ELSE 0

\* str.partition(sep): (head, sep, tail) around the first sep, or (s, '', '').
partition(s, sep) ==
    LET i == FirstIndex(s, sep)
    IN  IF i = 0
        THEN << s, << >>, << >> >>
        ELSE << SubSeq(s, 1, i - 1), << sep >>, SubSeq(s, i + 1, Len(s)) >>

\* os.path.split(p)[-1]: what follows the last "/".
basename(p) == SubSeq(p, LastIndex(p, "/") + 1, Len(p))

name_from_file(filename) == partition(basename(filename), ".")[1]

\* raiden.utils.get_contract_path: the file inside the package's contract
\* directory.
get_contract_path(x) == <<"raiden", "/", "smart_contracts", "/">> \o x


(* --------------------- unbounded integers (Python int) ---------------- *)
(* gas_price * 1000000000 leaves the 32-bit range for every gas price   *)
(* above 2, and a Python int never overflows: a non-negative int is the    *)
(* sequence of its decimal digits, least significant first.                *)

RECURSIVE Digits(_)
Digits(n) == IF n < 10 THEN << n >> ELSE << n % 10 >> \o Digits(n \div 10)

RECURSIVE SumOver(_, _)
SumOver(f, S) ==
    IF S = {}
    THEN 0
    ELSE LET x == CHOOSE y \in S : TRUE IN f[x] + SumOver(f, S \ {x})

RECURSIVE Carry(_, _)
Carry(cols, c) ==
    IF cols = << >>
    THEN IF c = 0 THEN << >> ELSE Digits(c)
    ELSE LET t == Head(cols) + c IN << t % 10 >> \o Carry(Tail(cols), t \div 10)

RECURSIVE Strip(_)
Strip(d) ==
    IF Len(d) > 1 /\ d[Len(d)] = 0 THEN Strip(SubSeq(d, 1, Len(d) - 1)) ELSE d

\* a * b on digit sequences: column sums, then carries.
Mul(a, b) ==
    LET cols == [k \in 1..(Len(a) + Len(b) - 1) |->
                    SumOver([i \in 1..Len(a) |->
                                IF k + 1 - i \in 1..Len(b) THEN a[i] * b[k + 1 - i] ELSE 0],
                            1..Len(a))]
    IN  Strip(Carry(cols, 0))

(* ------------------------------ addresses ----------------------------- *)

\* What the RPC client hands out: the raw (not checksummed) text of an address.
RawAddresses == {[id |-> n, fmt |-> "raw"] : n \in 1..MaxAddr}

\* eth_utils.to_checksum_address: the same 20 bytes, written in the
\* mixed-case checksum form.
to_checksum_address(a) == [id |-> a.id, fmt |-> "checksum"]

(* -------------------- the RPC client's deploy method ------------------ *)
(* What inspect.getsource finds for the method is a record: whether a      *)
(* source text is found at all (readable), the name its def statement      *)
(* defines (def_name), whether the def's header (a default value, a        *)
(* decorator) uses a name that only the class body defines (class_scope),  *)
(* and the text that follows the def line (text). The text is a list, in   *)
(* source order, of statements (the nodes of the syntax tree) and of       *)
(* lines that are no statement (a comment line, a further line of the def  *)
(* header). Each has the column it starts at once the method is dedented   *)
(* (col_offset), the column, in the client's file, of the leftmost of its  *)
(* source lines (text_col) and, for an if or a for, the list of what its   *)
(* block holds (body). The method is defined in a class, so its def line   *)
(* stands at column MethodIndent of the file.                              *)

MethodIndent == 4

MethodName == "deploy_solidity_contract"

Name(id) == [kind |-> "Name", id |-> id]

Stmt(type, targets, col, value) ==
    [type |-> type, targets |-> targets, col_offset |-> col, value |-> value,
     text_col |-> col + MethodIndent, body |-> << >>]

\* `if <test>:` or `for ... in <test>:` at column col, with its block.
Block(type, col, test, body) ==
    [type |-> type, targets |-> << >>, col_offset |-> col, value |-> test,
     text_col |-> col + MethodIndent, body |-> body]

\* `    note = """deploys` / `the contract` / `"""`: an assignment of a string
\* literal whose later lines start at column 0 of the file.
NoteAssign ==
    [type |-> "Assign", targets |-> << Name("note") >>, col_offset |-> 4,
     value |-> "multi-line string", text_col |-> 0, body |-> << >>]

\* A line of the text that yields no node of the tree: a "Comment", or a
\* "Header" line continuing the def's parameter list, at column col of the
\* file.
Line(type, col) ==
    [type |-> type, targets |-> << >>, col_offset |-> col - MethodIndent,
     value |-> "", text_col |-> col, body |-> << >>]

NonNodeLines == {"Comment", "Header"}

CopyAssign(col) == Stmt("Assign", << Name("libraries") >>, col, "dict(libraries)")

\* `for ...: libraries[deploy_contract] = contract_address`, the loop over
\* the dependencies, at column col.
WriteLoop(col) ==
    Block("For", col, "deployment_order",
          << Stmt("Assign", << [kind |-> "Subscript", id |-> "libraries"] >>,
                  col + 4, "contract_address") >>)

WriteAddress == WriteLoop(4)

Return == Stmt("Return", << >>, 4, "proxy")

Method(text) ==
    [readable |-> TRUE, def_name |-> MethodName, class_scope |-> FALSE, text |-> text]

\* The method as the patch expects it: `    libraries = dict(libraries)`.
SourceExpected == Method(<< CopyAssign(4), WriteAddress, Return >>)

\* The client already fixed: no copy is made.
SourceFixed == Method(<< WriteAddress, Return >>)

\* The copy made only for a dict that holds something: `if libraries:`.
SourceNested ==
    Method(<< Block("If", 4, "libraries", << CopyAssign(8) >>), WriteAddress, Return >>)

\* The copy made in a block that is always entered: `if libraries is not None:`.
SourceNestedAlways ==
    Method(<< Block("If", 4, "libraries is not None", << CopyAssign(8) >>),
              WriteAddress, Return >>)

\* The copy written with two targets: `libraries = libs = dict(libraries)`.
SourceChained ==
    Method(<< Stmt("Assign", << Name("libraries"), Name("libs") >>, 4, "dict(libraries)"),
              WriteAddress, Return >>)

\* The copy written with an annotation: `libraries: dict = libraries.copy()`.
SourceAnnotated ==
    Method(<< Stmt("AnnAssign", << Name("libraries") >>, 4, "libraries.copy()"),
              WriteAddress, Return >>)

\* The copy made once the addresses are written, in a tuple assignment:
\* `libraries, proxy = dict(libraries), ...`.
SourceCopyAfterWrite ==
    Method(<< WriteAddress,
              Stmt("Assign", << [kind |-> "Tuple", id |-> "libraries"] >>, 4, "dict(libraries)"),
              Return >>)

\* A method that does nothing but copy.
SourceOnlyCopy == Method(<< CopyAssign(4) >>)

\* A body indented by two columns, the copy alone in an if block, so at
\* column 4.
SourceTwoSpaces ==
    Method(<< Block("If", 2, "libraries is not None", << CopyAssign(4) >>),
              WriteLoop(2), Stmt("Return", << >>, 2, "proxy") >>)

\* The expected method, with a multi-line string in it.
SourceExpectedNote == Method(<< CopyAssign(4), NoteAssign, WriteAddress, Return >>)

\* The fixed method, with a multi-line string in it.
SourceFixedNote == Method(<< NoteAssign, WriteAddress, Return >>)

\* The expected method with `# written at the margin` at column 0.
SourceExpectedComment ==
    Method(<< CopyAssign(4), Line("Comment", 0), WriteAddress, Return >>)

\* The fixed method with the same comment line.
SourceFixedComment == Method(<< Line("Comment", 0), WriteAddress, Return >>)

\* The expected method, the header's line `contract_path=None,` at column 0.
SourceHeaderAtMargin ==
    Method(<< Line("Header", 0), CopyAssign(4), WriteAddress, Return >>)

\* The expected method with a comment indented like the body.
SourceExpectedInnerComment ==
    Method(<< CopyAssign(4), Line("Comment", 8), WriteAddress, Return >>)

\* The class binds the name to a function defined under another name:
\* `deploy_solidity_contract = _deploy`.
SourceOtherName ==
    [readable |-> TRUE, def_name |-> "_deploy", class_scope |-> FALSE,
     text |-> << CopyAssign(4), WriteAddress, Return >>]

\* The same, the client already fixed.
SourceFixedOtherName ==
    [readable |-> TRUE, def_name |-> "_deploy", class_scope |-> FALSE,
     text |-> << WriteAddress, Return >>]

\* A default value of the header names a constant of the class body.
SourceClassDefault ==
    [readable |-> TRUE, def_name |-> MethodName, class_scope |-> TRUE,
     text |-> << WriteAddress, Return >>]

\* inspect.getsource finds no source text for the method.
NoSource == [readable |-> FALSE, def_name |-> MethodName, class_scope |-> FALSE, text |-> << >>]

UpstreamSources ==
    {SourceExpected, SourceFixed, SourceNested, SourceNestedAlways, SourceChained,
     SourceAnnotated, SourceCopyAfterWrite, SourceOnlyCopy, SourceTwoSpaces,
     SourceExpectedNote, SourceFixedNote, SourceExpectedComment, SourceFixedComment,
     SourceHeaderAtMargin, SourceExpectedInnerComment, SourceOtherName,
     SourceFixedOtherName, SourceClassDefault}

\* The references under which the client records the libraries it deploys
\* as dependencies.
LibraryRefs ==
    {RAIDEN_CONTRACT_FILES[k] \o << ":" >> \o name_from_file(RAIDEN_CONTRACT_FILES[k]) :
        k \in 1..2}

LibDicts == UNION {[S -> RawAddresses] : S \in SUBSET LibraryRefs}

\* What one call of the deploy operation can do: fail or return a proxy at
\* `address`, having deployed the dependencies `libs` on the way.
Outcomes == [ok : BOOLEAN, address : RawAddresses, libs : LibDicts]

\* The statement binds the local name `libraries` to a copy of the dict.
RebindsToCopy(stmt) ==
    /\ stmt.type \in {"Assign", "AnnAssign"}
    /\ stmt.value \in {"dict(libraries)", "libraries.copy()"}
    /\ \E t \in 1..Len(stmt.targets) :
        /\ stmt.targets[t].id = "libraries"
        /\ stmt.targets[t].kind \in {"Name", "Tuple"}

\* The statement stores the dependencies' addresses in the dict the local
\* name `libraries` stands for.
WritesAddresses(stmt) ==
    /\ stmt.type = "Assign"
    /\ \E t \in 1..Len(stmt.targets) :
        stmt.targets[t] = [kind |-> "Subscript", id |-> "libraries"]

\* Whether the block of an if or a for is entered: `if libraries:` is for a
\* dict that holds something, `if libraries is None:` never for the dict
\* deploy_file passes.
Entered(stmt, frame) ==
    CASE stmt.value = "libraries" -> DOMAIN frame.local # {}
      [] stmt.value = "libraries is None" -> FALSE
      [] OTHER -> TRUE

\* The method's statements run in order on a frame: the caller's dict, the
\* dict the local name `libraries` stands for, whether the two are one
\* object (shared), and whether the method has returned.
RECURSIVE Run(_, _, _)
Run(body, frame, out) ==
    IF body = << >> \/ frame.returned
    THEN frame
    ELSE LET stmt == Head(body)
             after ==
                 CASE stmt.type = "Return" -> [frame EXCEPT !.returned = TRUE]
                   [] RebindsToCopy(stmt) -> [frame EXCEPT !.shared = FALSE]
                   [] stmt.type # "Return" /\ ~RebindsToCopy(stmt) /\ WritesAddresses(stmt) ->
                        [frame EXCEPT
                            !.local = Update(@, out.libs),
                            !.caller = IF frame.shared THEN Update(@, out.libs) ELSE @]
                   [] stmt.type \in {"If", "For"} ->
                        IF Entered(stmt, frame) THEN Run(stmt.body, frame, out) ELSE frame
                   [] OTHER -> frame
         IN  Run(Tail(body), after, out)

\* The libraries dict of the caller after the call.
deploy_solidity_contract(body, libraries, out) ==
    Run(body,
        [caller |-> libraries, local |-> libraries, shared |-> TRUE, returned |-> FALSE],
        out).caller

(* ------------------------------ Patch Step ---------------------------- *)

is_libraries(node) ==
    /\ Len(node.targets) = 1
    /\ node.col_offset = 4
    /\ node.targets[1].kind = "Name"
    /\ node.targets[1].id = "libraries"

\* NodeTransformer.visit with visit_Assign: generic_visit walks every block,
\* and Assign nodes that match are dropped wherever they stand.
RECURSIVE RemoveLibraryDeref(_)
RemoveLibraryDeref(tree) ==
    LET kept == SelectSeq(tree, LAMBDA node : ~(node.type = "Assign" /\ is_libraries(node)))
    IN  [k \in 1..Len(kept) |-> [kept[k] EXCEPT !.body = RemoveLibraryDeref(@)]]

\* ast.parse: the statements of the text; comments and the header's lines
\* leave no node in the tree.
RECURSIVE ast_parse(_)
ast_parse(text) ==
    LET nodes == SelectSeq(text, LAMBDA line : line.type \notin NonNodeLines)
    IN  [k \in 1..Len(nodes) |-> [nodes[k] EXCEPT !.body = ast_parse(@)]]

\* The columns of all lines of the text, those of the blocks included.
RECURSIVE text_cols(_)
text_cols(text) ==
    UNION {{text[k].text_col} \cup text_cols(text[k].body) : k \in 1..Len(text)}

\* textwrap.dedent strips the margin common to all lines of the text: the
\* def line's indentation, unless some line of the text, of a statement or
\* not, stands left of it.
dedent_margin(text) ==
    LET cols == {MethodIndent} \cup text_cols(text)
    IN  CHOOSE m \in cols : \A c \in cols : m <= c

\* compile refuses a tree in which the function, an if or a for is left
\* with no statement.
RECURSIVE has_empty_body(_)
has_empty_body(tree) ==
    \/ tree = << >>
    \/ \E k \in 1..Len(tree) :
        /\ tree[k].type \in {"If", "For"}
        /\ has_empty_body(tree[k].body)

\* A patch that insists on finding the assignment it is to remove.
patch_raises_strict(src) ==
    \/ ~src.readable
    \/ dedent_margin(src.text) < MethodIndent
    \/ has_empty_body(RemoveLibraryDeref(ast_parse(src.text)))
    \/ src.class_scope
    \/ src.def_name # MethodName
    \/ RemoveLibraryDeref(ast_parse(src.text)) = ast_parse(src.text)

\* The errors of the patch, line by line: getsource raises when the method
\* has no source to read; ast.parse raises IndentationError when dedent
\* leaves the def line indented; compile raises ValueError when the removal
\* leaves the function or a block without a statement; exec raises NameError
\* when the def's header needs a name of the class body; and ctx has no key
\* 'deploy_solidity_contract' when the def defines another name. Nothing
\* looks at whether a node was removed.
patch_raises(src) ==
    \/ ~src.readable
    \/ dedent_margin(src.text) < MethodIndent
    \/ has_empty_body(RemoveLibraryDeref(ast_parse(src.text)))
    \/ src.class_scope
    \/ src.def_name # MethodName

(* ---------------------------- deploy_file ----------------------------- *)

\* Handing the orchestrator's accumulator to the client instead of a new dict.
client_call_args_shared(contract) ==
    LET p == partition(contract, ":")
    IN  [name |-> p[3], contract_path |-> p[1], libraries |-> deployed]

\* Name and file the wrong way round.
client_call_args_swapped(contract) ==
    LET p == partition(contract, ":")
    IN  [name |-> p[1], contract_path |-> p[3], libraries |-> EmptyDict]

\* The arguments deploy_file hands to client.deploy_solidity_contract.
client_call_args(contract) ==
    LET p == partition(contract, ":")
    IN  [name |-> p[3], contract_path |-> p[1], libraries |-> EmptyDict]

\* Keyed by the contract's name instead of the reference.
deploy_file_by_name(contract, out) ==
    LET libraries ==
            deploy_solidity_contract(method, client_call_args(contract).libraries, out)
    IN  Update(libraries, partition(contract, ":")[3] :> out.address)

\* The dict deploy_file returns when the call succeeds with outcome out.
deploy_file(contract, out) ==
    LET libraries ==
            deploy_solidity_contract(method, client_call_args(contract).libraries, out)
    IN  Update(libraries, contract :> out.address)

(* ----------------------------- deploy_all ----------------------------- *)

\* Compiling only the files of the top-level contracts.
contracts_expanded_top_level ==
    [k \in 1..2 |-> get_contract_path(RAIDEN_CONTRACT_FILES[k + 2])]

contracts_expanded ==
    [k \in 1..Len(RAIDEN_CONTRACT_FILES) |-> get_contract_path(RAIDEN_CONTRACT_FILES[k])]

\* A loop that swallows the error of a failed deployment and goes on.
after_deploy_swallow(k, ok) ==
    IF k < Len(CONTRACTS_TO_DEPLOY) THEN "deploy" ELSE "format_endpoint"

\* Where the run stands after the k-th deployment call: an error leaves
\* deploy_all and main, otherwise the loop goes on or deploy_all returns.
after_deploy(k, ok) ==
    IF ~ok
    THEN "aborted"
    ELSE IF k < Len(CONTRACTS_TO_DEPLOY) THEN "deploy" ELSE "format_endpoint"

(* -------------------------------- main -------------------------------- *)

\* The command line's --gas-price values: << >> when the option is absent.
NotGiven == << >>

GasPriceOptions == {NotGiven} \cup {<< g >> : g \in {DefaultGasPrice} \cup 0..MaxGasPrice}

\* click: the option's value, or its default.
gas_price_of(opt) == IF opt = NotGiven THEN DefaultGasPrice ELSE opt[1]

\* The command line's --port values: absent, a low port, another node's port.
PortOptions == {NotGiven} \cup {<< p >> : p \in {1, 9000}}

\* click: the option's value, or its default.
port_of(opt) == IF opt = NotGiven THEN DefaultPort ELSE opt[1]

\* GWei taken to be 10^6 wei.
to_wei_mwei(gas_price) == Mul(Digits(gas_price), Digits(1000000))

to_wei(gas_price) == Mul(Digits(gas_price), Digits(GWei))

\* The formatting step forgotten.
format_entry_skip(d, key) == d

\* deployed[key] = to_checksum_address(deployed[key])
format_entry(d, key) == [d EXCEPT ![key] = to_checksum_address(d[key])]

json_dumps(obj, indent) == [obj |-> obj, indent |-> indent]

\* The Patch Step placed after the construction of the client.
main_order_patch_late ==
    << "account", "gas", "client", "patch", "compile" >>

\* The order of main's statements up to deploy_all's loop.
main_order ==
    << "account", "gas", "patch", "client", "compile" >>

\* The step after `step` when it raised nothing.
Follows(step) ==
    LET k == CHOOSE j \in 1..Len(main_order) : main_order[j] = step
    IN  IF k < Len(main_order) THEN main_order[k + 1] ELSE "deploy"


(* --------------------------- the state machine ------------------------ *)

Init ==
    /\ pc = main_order[1]
    /\ error = None
    /\ pretty \in BOOLEAN
    /\ gas_price_opt \in GasPriceOptions
    /\ port_opt \in PortOptions
    /\ source \in UpstreamSources \cup {NoSource}
    /\ method = ast_parse(source.text)
    /\ privatekey = None
    /\ gas_price_in_wei = << >>
    /\ client = << >>
    /\ compile_calls = << >>
    /\ compiled_contracts = {}
    /\ idx = 1
    /\ deployed = EmptyDict
    /\ calls = << >>
    /\ chain = {}
    /\ stdout = << >>
    /\ trace = << >>

\* An error nobody catches: it leaves main and ends the process.
Raise(what) ==
    /\ pc' = "aborted"
    /\ error' = what

\* privatekey = get_privatekey(keystore_path)
ResolveAccount ==
    /\ pc = "account"
    /\ trace' = Append(trace, "account")
    /\ \/ /\ privatekey' = "privatekey"
          /\ pc' = Follows("account")
          /\ UNCHANGED error
       \/ /\ Raise("account")
          /\ UNCHANGED privatekey
    /\ UNCHANGED << pretty, gas_price_opt, port_opt, source, method, gas_price_in_wei, client,
                    compile_calls, compiled_contracts, idx, deployed, calls, chain,
                    stdout >>

\* gas_price_in_wei = gas_price * 1000000000
ComputeGasPrice ==
    /\ pc = "gas"
    /\ trace' = Append(trace, "gas")
    /\ gas_price_in_wei' = to_wei(gas_price_of(gas_price_opt))
    /\ pc' = Follows("gas")
    /\ UNCHANGED << error, pretty, gas_price_opt, port_opt, source, method, privatekey, client,
                    compile_calls, compiled_contracts, idx, deployed, calls, chain,
                    stdout >>

\* patch_deploy_solidity_contract()
PatchStep ==
    /\ pc = "patch"
    /\ trace' = Append(trace, "patch")
    /\ IF patch_raises(source)
       THEN /\ Raise("patch")
            /\ UNCHANGED method
       ELSE /\ method' = RemoveLibraryDeref(ast_parse(source.text))
            /\ pc' = Follows("patch")
            /\ UNCHANGED error
    /\ UNCHANGED << pretty, gas_price_opt, port_opt, source, privatekey, gas_price_in_wei, client,
                    compile_calls, compiled_contracts, idx, deployed, calls, chain,
                    stdout >>

\* client = JSONRPCClient(host, port, privatekey, gas_price_in_wei)
ConstructClient ==
    /\ pc = "client"
    /\ trace' = Append(trace, "client")
    /\ \/ /\ client' = Append(client, [host |-> Host, port |-> port_of(port_opt),
                                       privatekey |-> privatekey,
                                       gas_price |-> gas_price_in_wei])
          /\ pc' = Follows("client")
          /\ UNCHANGED error
       \/ /\ Raise("client")
          /\ UNCHANGED client
    /\ UNCHANGED << pretty, gas_price_opt, port_opt, source, method, privatekey, gas_price_in_wei,
                    compile_calls, compiled_contracts, idx, deployed, calls, chain,
                    stdout >>

\* deploy_all up to its loop: compiled_contracts = compile_files_cwd(...);
\* deployed = {}
Compile ==
    /\ pc = "compile"
    /\ trace' = Append(trace, "compile")
    /\ compile_calls' = Append(compile_calls, contracts_expanded)
    /\ \/ /\ compiled_contracts' = Range(contracts_expanded)
          /\ deployed' = EmptyDict
          /\ idx' = 1
          /\ pc' = Follows("compile")
          /\ UNCHANGED error
       \/ /\ Raise("compile")
          /\ UNCHANGED << compiled_contracts, deployed, idx >>
    /\ UNCHANGED << pretty, gas_price_opt, port_opt, source, method, privatekey, gas_price_in_wei,
                    client, calls, chain, stdout >>

\* One turn of deploy_all's loop: deployed.update(deploy_file(contract, ...)),
\* with the outcome of the client's deploy operation chosen by the node.
DeployStep ==
    /\ pc = "deploy"
    /\ trace' = Append(trace, "deploy")
    /\ \E out \in Outcomes :
        LET contract == CONTRACTS_TO_DEPLOY[idx]
            args == client_call_args(contract)
        IN  /\ out.ok \/ out.address.id = 1
            /\ calls' = Append(calls,
                    [contract |-> contract,
                     name |-> args.name,
                     contract_path |-> args.contract_path,
                     libraries |-> args.libraries,
                     ok |-> out.ok,
                     address |-> out.address,
                     wrote |-> out.libs,
                     returned |-> IF out.ok THEN deploy_file(contract, out) ELSE EmptyDict])
            /\ chain' = chain
                    \cup {[contract |-> k, address |-> out.libs[k]] : k \in DOMAIN out.libs}
                    \cup (IF out.ok
                          THEN {[contract |-> contract, address |-> out.address]}
                          ELSE {})
            /\ deployed' = IF out.ok
                           THEN Update(deployed, deploy_file(contract, out))
                           ELSE deployed
            /\ pc' = after_deploy(idx, out.ok)
            /\ error' = IF pc' = "aborted" THEN "deploy" ELSE error
            /\ idx' = IF pc' = "aborted" THEN idx ELSE idx + 1
    /\ UNCHANGED << pretty, gas_price_opt, port_opt, source, method, privatekey, gas_price_in_wei,
                    client, compile_calls, compiled_contracts, stdout >>

\* A subscript on a key the dict lacks raises KeyError.
FormatStep(step, key, next) ==
    /\ pc = step
    /\ trace' = Append(trace, step)
    /\ IF key \in DOMAIN deployed
       THEN /\ deployed' = format_entry(deployed, key)
            /\ pc' = next
            /\ UNCHANGED error
       ELSE /\ Raise("KeyError")
            /\ UNCHANGED deployed
    /\ UNCHANGED << pretty, gas_price_opt, port_opt, source, method, privatekey, gas_price_in_wei,
                    client, compile_calls, compiled_contracts, idx, calls, chain, stdout >>

FormatEndpointRegistry == FormatStep("format_endpoint", KeyEndpointRegistry, "format_registry")

FormatRegistry == FormatStep("format_registry", KeyRegistry, "print")

\* print(json.dumps(deployed, indent=2 if pretty else None))
PrintJson ==
    /\ pc = "print"
    /\ trace' = Append(trace, "print")
    /\ stdout' = Append(stdout, json_dumps(deployed, IF pretty THEN "2" ELSE None))
    /\ pc' = "done"
    /\ UNCHANGED << error, pretty, gas_price_opt, port_opt, source, method, privatekey,
                    gas_price_in_wei, client, compile_calls, compiled_contracts, idx,
                    deployed, calls, chain >>

Next ==
    \/ ResolveAccount
    \/ ComputeGasPrice
    \/ PatchStep
    \/ ConstructClient
    \/ Compile
    \/ DeployStep
    \/ FormatEndpointRegistry
    \/ FormatRegistry
    \/ PrintJson

Spec == Init /\ [][Next]_vars


(* ------------------------------- claims ------------------------------- *)

IsPrefix(a, b) == Len(a) <= Len(b) /\ SubSeq(b, 1, Len(a)) = a

AfterDeployAll == {"format_endpoint", "format_registry", "print", "done"}

ExpectedCalls ==
    << [name |-> << "Registry" >>, contract_path |-> << "Registry", ".", "sol" >>],
       [name |-> << "EndpointRegistry" >>,
        contract_path |-> << "EndpointRegistry", ".", "sol" >>] >>

\* C1: the deploy operation is called at most once per entry of
\* CONTRACTS_TO_DEPLOY, the k-th call carries the contract name and the
\* source file of the k-th entry (Registry of Registry.sol first, then
\* EndpointRegistry of EndpointRegistry.sol), and once deploy_all has
\* returned there has been exactly one call per entry.
C1_OneCallPerEntryInOrder ==
    /\ Len(calls) <= Len(ExpectedCalls)
    /\ \A k \in 1..Len(calls) :
        /\ calls[k].name = ExpectedCalls[k].name
        /\ calls[k].contract_path = ExpectedCalls[k].contract_path
    /\ pc \in AfterDeployAll => Len(calls) = Len(ExpectedCalls)

\* A run without a failing call has ended, both deployments made.
C1_Witness ==
    /\ pc = "done"
    /\ Len(calls) = 2
    /\ \A k \in 1..Len(calls) : calls[k].ok

\* C2 as stated: the dict deploy_file returns has exactly one entry, keyed
\* by the contract reference it was given.
C2_Original ==
    \A k \in 1..Len(calls) :
        calls[k].ok => DOMAIN calls[k].returned = {calls[k].contract}

\* C2 amended: the dict deploy_file returns has an entry under the contract
\* reference it was given, holding the address of the returned proxy; every
\* other entry is a dependency address the deploy operation wrote into the
\* libraries dict, under the key and with the value it wrote. (So the dict
\* has more than one entry whenever such writes land in the dict that
\* deploy_file handed over.)
C2_KeyedByReferencePlusDependencies ==
    \A k \in 1..Len(calls) :
        calls[k].ok =>
            LET r == calls[k].returned
                c == calls[k].contract
            IN  /\ c \in DOMAIN r
                /\ r[c] = calls[k].address
                /\ \A l \in DOMAIN r \ {c} :
                    /\ l \in DOMAIN calls[k].wrote
                    /\ r[l] = calls[k].wrote[l]

\* A patched call wrote two dependency addresses: three entries come back.
C2_Witness ==
    \E k \in 1..Len(calls) :
        /\ calls[k].ok
        /\ Cardinality(DOMAIN calls[k].returned) = 3

\* C3 as stated: the printed object has exactly the entries of
\* CONTRACTS_TO_DEPLOY as keys and every value is a checksum address.
C3_Original ==
    \A n \in 1..Len(stdout) :
        /\ DOMAIN stdout[n].obj = Range(CONTRACTS_TO_DEPLOY)
        /\ \A key \in DOMAIN stdout[n].obj : stdout[n].obj[key].fmt = "checksum"

\* C3 amended: the printed object has a key for every entry of
\* CONTRACTS_TO_DEPLOY, whose value is the checksum form of the address the
\* client returned for that entry; every other key is a dependency the
\* client recorded in the shared libraries dict, printed with the address
\* exactly as the client wrote it.
C3_TopLevelChecksummedDependenciesAsWritten ==
    \A n \in 1..Len(stdout) :
        LET obj == stdout[n].obj
        IN  /\ Range(CONTRACTS_TO_DEPLOY) \subseteq DOMAIN obj
            /\ \A k \in 1..Len(CONTRACTS_TO_DEPLOY) :
                /\ obj[CONTRACTS_TO_DEPLOY[k]].fmt = "checksum"
                /\ obj[CONTRACTS_TO_DEPLOY[k]].id = calls[k].address.id
            /\ \A key \in DOMAIN obj \ Range(CONTRACTS_TO_DEPLOY) :
                \E k \in 1..Len(calls) :
                    /\ key \in DOMAIN calls[k].wrote
                    /\ obj[key] = calls[k].wrote[key]

\* The JSON was printed and holds a dependency's address next to the two
\* top-level contracts.
C3_Witness ==
    /\ pc = "done"
    /\ \E n \in 1..Len(stdout) : Cardinality(DOMAIN stdout[n].obj) > 2

\* C4 as stated: the libraries dict handed to the k-th deployment call holds
\* what the earlier calls of the run recorded.
C4_Original ==
    \A k \in 1..Len(calls) : \A j \in 1..(k - 1) :
        \A key \in DOMAIN calls[j].returned :
            /\ key \in DOMAIN calls[k].libraries
            /\ calls[k].libraries[key] = calls[j].returned[key]

\* C4 amended: every deployment call is handed a new, empty libraries dict;
\* what earlier calls recorded is kept in deploy_all's accumulator, which
\* holds, when the k-th entry is about to be deployed, the returned address
\* of every earlier entry, and which the client never receives.
C4_FreshDictPerCallAccumulatorApart ==
    /\ \A k \in 1..Len(calls) : DOMAIN calls[k].libraries = {}
    /\ pc = "deploy" =>
        \A j \in 1..(idx - 1) :
            /\ CONTRACTS_TO_DEPLOY[j] \in DOMAIN deployed
            /\ deployed[CONTRACTS_TO_DEPLOY[j]] = calls[j].address

\* The second entry was deployed after the first had recorded addresses.
C4_Witness ==
    /\ Len(calls) = 2
    /\ calls[2].ok
    /\ Cardinality(DOMAIN calls[1].returned) > 1

\* All lines of a method's text, those inside blocks included.
RECURSIVE LinesOf(_)
LinesOf(text) == UNION {{text[k]} \cup LinesOf(text[k].body) : k \in 1..Len(text)}

\* The method's source holds the assignment the patch looks for.
HasExpectedAssignment(src) ==
    \E l \in LinesOf(src.text) :
        /\ l.type = "Assign"
        /\ Len(l.targets) = 1
        /\ l.targets[1] = Name("libraries")
        /\ l.col_offset = 4

PatchHasRun == \E k \in 1..Len(trace) : trace[k] = "patch"

\* C5 as stated: without the expected assignment in the method's source the
\* patch raises, so no client is constructed and no deployment call made.
C5_Original ==
    ~HasExpectedAssignment(source) =>
        /\ client = << >>
        /\ calls = << >>
        /\ PatchHasRun => error = "patch"

\* The steps of the patch that do not depend on the assignment go through:
\* the source can be read, no line of its text stands left of the def line
\* (the dedented text parses), the def defines the method under its own
\* name and its header needs no name of the class body.
PatchableSource(src) ==
    /\ src.readable
    /\ \A l \in LinesOf(src.text) : l.text_col >= 4
    /\ src.def_name = "deploy_solidity_contract"
    /\ ~src.class_scope

\* The statements among the lines of a method's text.
RECURSIVE Statements(_)
Statements(text) ==
    LET st == SelectSeq(text, LAMBDA l : l.type # "Comment" /\ l.type # "Header")
    IN  [k \in 1..Len(st) |-> [st[k] EXCEPT !.body = Statements(@)]]

\* C5 amended: the absence of the expected assignment is not an error.
\* On a source that can be read, parsed after dedenting and executed to
\* define the method under its name, but that lacks the assignment, the
\* patch raises nothing and removes nothing: the method is rebound to a
\* body with the same statements and the run goes on to construct the
\* client and deploy. Whenever the patch does raise, the run aborts before
\* the client is constructed and before any deployment call.
C5_MissingAssignmentIsSilent ==
    /\ (PatchableSource(source) /\ ~HasExpectedAssignment(source)) =>
        /\ error # "patch"
        /\ method = Statements(source.text)
    /\ error = "patch" =>
        /\ pc = "aborted"
        /\ client = << >>
        /\ calls = << >>
        /\ stdout = << >>

\* The copy sits inside a block, the patch left it alone, and a contract
\* was deployed all the same.
C5_Witness ==
    /\ source = SourceNested
    /\ PatchHasRun
    /\ Len(client) = 1
    /\ Len(calls) >= 1

\* C6: a failed deployment call is the last call of the run (no retry, no
\* call for a later entry), the run has aborted on it with nothing printed,
\* and every contract an earlier call deployed is still on the chain.
C6_FailedDeploymentAborts ==
    \A k \in 1..Len(calls) :
        ~calls[k].ok =>
            /\ k = Len(calls)
            /\ pc = "aborted"
            /\ error = "deploy"
            /\ stdout = << >>
            /\ \A j \in 1..(k - 1) :
                [contract |-> calls[j].contract, address |-> calls[j].address] \in chain

\* The second deployment failed after the first had succeeded.
C6_Witness ==
    /\ Len(calls) = 2
    /\ calls[1].ok
    /\ ~calls[2].ok

\* C7: the compiler is called at most once, with the paths of all files of
\* RAIDEN_CONTRACT_FILES; every deployment call comes after that one call,
\* a completed run has made it, and a failed compilation aborts the run
\* with no deployment call made and nothing printed.
C7_CompileOnceBeforeDeploying ==
    /\ Len(compile_calls) <= 1
    /\ \A n \in 1..Len(compile_calls) :
        /\ Len(compile_calls[n]) = Len(RAIDEN_CONTRACT_FILES)
        /\ \A k \in 1..Len(RAIDEN_CONTRACT_FILES) :
            basename(compile_calls[n][k]) = RAIDEN_CONTRACT_FILES[k]
    /\ (calls # << >> \/ pc \in AfterDeployAll) => Len(compile_calls) = 1
    /\ error = "compile" =>
        /\ pc = "aborted"
        /\ Len(compile_calls) = 1
        /\ calls = << >>
        /\ chain = {}
        /\ stdout = << >>

\* The compilation was attempted and failed.
C7_Witness ==
    /\ error = "compile"
    /\ Len(compile_calls) = 1

NineZeros == << 0, 0, 0, 0, 0, 0, 0, 0, 0 >>

\* C8: the gas price the client is constructed with is the --gas-price
\* value (4 when the option is absent) times 10^9, that is its decimal
\* digits followed by nine zeros; for 4 it is 4000000000.
C8_GasPriceInWei ==
    \A n \in 1..Len(client) :
        LET g == IF gas_price_opt = << >> THEN 4 ELSE gas_price_opt[1]
        IN  /\ client[n].gas_price = IF g = 0 THEN << 0 >> ELSE NineZeros \o Digits(g)
            /\ g = 4 => client[n].gas_price = << 0, 0, 0, 0, 0, 0, 0, 0, 0, 4 >>

\* A client was constructed in a run started with an explicit --gas-price 4.
C8_Witness ==
    /\ Len(client) = 1
    /\ gas_price_opt = << 4 >>

ExpectedOrder ==
    << "account", "gas", "patch", "client", "compile", "deploy", "deploy",
       "format_endpoint", "format_registry", "print" >>

\* C9: the steps a run has taken are always an initial part of the fixed
\* order account, gas price, patch, client, compile, the two deployments,
\* the two formatting steps, print; so the patch runs once, before any
\* deployment call, and whatever is printed is printed after all entries
\* are deployed; a run that completes has taken every step.
C9_FixedStepOrder ==
    /\ IsPrefix(trace, ExpectedOrder)
    /\ pc = "done" => trace = ExpectedOrder
    /\ calls # << >> => PatchHasRun
    /\ stdout # << >> => (Len(calls) = Len(CONTRACTS_TO_DEPLOY) /\ \A k \in 1..Len(calls) : calls[k].ok)

\* A run went through to the print.
C9_Witness ==
    /\ pc = "done"
    /\ Len(stdout) = 1

FormattedKeys == {KeyRegistry, KeyEndpointRegistry}

\* A formatting step leaves the key set and the other entries alone.
FormatFrame ==
    pc \in {"format_endpoint", "format_registry"} =>
        /\ DOMAIN deployed' = DOMAIN deployed
        /\ \A key \in DOMAIN deployed \ FormattedKeys : deployed'[key] = deployed[key]

LookupsSucceed ==
    /\ error # "KeyError"
    /\ pc \in AfterDeployAll => FormattedKeys \subseteq DOMAIN deployed

\* C10: once deploy_all has returned, deployed has both keys main looks up,
\* so no lookup raises KeyError; and a formatting step leaves deployed's
\* key set and every entry under another key as they were.
C10_LookupsSucceedAndFrame == []LookupsSucceed /\ [][FormatFrame]_vars

\* Both formatting steps have run on a dict that also holds dependencies.
C10_Witness ==
    /\ pc = "print"
    /\ Cardinality(DOMAIN deployed) > 2

====
